---- MODULE Spec2Model ----
(***************************************************************************)
(* Model of the parallel-copy sequentializer (src/src/algorithm13.rs) and  *)
(* of the depth-first traversal utility (src/src/algorithm2.rs).           *)
(*                                                                         *)
(* sequentialize_register is modelled one loop iteration per step.  Its   *)
(* local variables are the variables of the module; every loop body is an *)
(* operator from the record of locals to the record of locals, so that a  *)
(* whole call is also available as the function Run.                      *)
(***************************************************************************)
EXTENDS FiniteSets, Integers, Sequences, TLC

\* Registers are 0..MaxReg (Register(u32) restricted to a small range).
MaxReg == 4
\* Longest batch that satisfies the two preconditions.
MaxCopies == 3
\* Longest batch drawn without regard to the preconditions.
MaxBadCopies == 2
\* Graph nodes are 0..MaxNode.
MaxNode == 3
\* Most edges of a graph.
MaxEdges == 3

Register == 0..MaxReg

RegisterCopy == [source : Register, destination : Register]

Node == 0..MaxNode

VARIABLES
    parallel_copies,   \* argument: the batch, in the order it was passed
    spare,             \* argument: the spare register
    pc,                \* position in sequentialize_register
    idx,               \* position of the running `for` loop in parallel_copies
    panic,             \* which panic! ended the call, "none" if none did
    current_holder,    \* HashMap<Register, Register>
    pending,           \* BTreeMap<Register, &RegisterCopy>
    available,         \* Vec<&RegisterCopy>, used as a stack
    sequentialized     \* Vec<RegisterCopy>, the value returned

\* dfs_search (algorithm2.rs).
VARIABLES
    graph,             \* argument: [root, edges]; the field `nodes` is not read
    dfs_pc,            \* "idle", "running" or "done"
    stack,             \* the activations of the nested fn dfs, innermost last
    visited,           \* HashSet<Node>
    pre,               \* HashMap<Node, usize>
    post,              \* HashMap<Node, usize>
    spanning_tree,     \* HashMap<Node, Node>
    pre_time,
    post_time

seq_vars == <<parallel_copies, spare, pc, idx, panic, current_holder, pending,
              available, sequentialized>>

dfs_vars == <<graph, dfs_pc, stack, visited, pre, post, spanning_tree,
              pre_time, post_time>>

vars == <<seq_vars, dfs_vars>>

----------------------------------------------------------------------------
\* Maps (HashMap, BTreeMap) are functions whose domain is the set of keys.

EmptyMap == <<>>

MapInsert(m, k, v) == [x \in (DOMAIN m) \cup {k} |-> IF x = k THEN v ELSE m[x]]

MapRemove(m, k) == [x \in (DOMAIN m) \ {k} |-> m[x]]

\* Vec::push and Vec::pop: the last element is the top of the stack.
Push(v, x) == Append(v, x)

Top(v) == v[Len(v)]

Pop(v) == SubSeq(v, 1, Len(v) - 1)

\* BTreeMap::iter().next(): the entry with the smallest key.
\* Variant: the last entry of the map in key order.
LastKey(m) == CHOOSE k \in DOMAIN m : \A j \in DOMAIN m : k >= j

FirstKey(m) == CHOOSE k \in DOMAIN m : \A j \in DOMAIN m : k <= j

----------------------------------------------------------------------------
\* The locals of one call, as a record.

InitLocals ==
    [pc |-> "check", idx |-> 1, panic |-> "none",
     current_holder |-> EmptyMap, pending |-> EmptyMap,
     available |-> <<>>, sequentialized |-> <<>>]

\* Variant: only the destination is compared with the spare.
UsesSpareAsDestination(copy, sp) == copy.destination = sp

\* line 24: the copy names the spare register.
UsesSpare(copy, sp) == copy.source = sp \/ copy.destination = sp

\* Variant: the value returned by pending.insert is ignored.
IsDuplicateIgnored(pend, copy) == FALSE

\* line 27: pending.insert returned the entry it replaced.
IsDuplicate(pend, copy) == copy.destination \in DOMAIN pend

\* Variant: current_holder is keyed by the destination of the copy.
ValidateCopyHolderOfDestination(copies, sp, s) ==
    LET copy == copies[s.idx] IN
    IF UsesSpare(copy, sp)
    THEN [s EXCEPT !.pc = "panic", !.panic = "spare"]
    ELSE IF IsDuplicate(s.pending, copy)
    THEN [s EXCEPT !.pc = "panic", !.panic = "duplicate",
                   !.pending = MapInsert(s.pending, copy.destination, copy)]
    ELSE [s EXCEPT !.pending = MapInsert(s.pending, copy.destination, copy),
                   !.current_holder =
                       MapInsert(s.current_holder, copy.destination,
                                 copy.destination),
                   !.idx = s.idx + 1]

\* Body of the first `for` loop (lines 23-34).
ValidateCopy(copies, sp, s) ==
    LET copy == copies[s.idx] IN
    IF UsesSpare(copy, sp)
    THEN [s EXCEPT !.pc = "panic", !.panic = "spare"]
    ELSE IF IsDuplicate(s.pending, copy)
    THEN [s EXCEPT !.pc = "panic", !.panic = "duplicate",
                   !.pending = MapInsert(s.pending, copy.destination, copy)]
    ELSE [s EXCEPT !.pending = MapInsert(s.pending, copy.destination, copy),
                   !.current_holder =
                       MapInsert(s.current_holder, copy.source, copy.source),
                   !.idx = s.idx + 1]

\* The first `for` loop is exhausted; the second one starts.
ValidateEnd(s) == [s EXCEPT !.pc = "seed", !.idx = 1]

\* Variant: the test of line 37 without its negation.
IsSeedInverted(holder, copy) == copy.destination \in DOMAIN holder

\* Variant: the test of line 37 on the source of the copy.
IsSeedOfSource(holder, copy) == copy.source \notin DOMAIN holder

\* Variant: a copy of a register to itself counts as read by no copy.
IsSeedSelfCopy(holder, copy) ==
    copy.destination \notin DOMAIN holder \/ copy.source = copy.destination

\* line 37: nothing reads the destination of the copy.
IsSeed(holder, copy) == copy.destination \notin DOMAIN holder

\* Variant: the two `for` loops fused, so that a copy is tested against the
\* sources of the copies up to it only.
SeedCopyFused(copies, s) ==
    LET copy == copies[s.idx]
        seen == {copies[i].source : i \in 1..s.idx}
    IN  IF copy.destination \notin seen
        THEN [s EXCEPT !.pending = MapRemove(s.pending, copy.destination),
                       !.available = Push(s.available, copy),
                       !.idx = s.idx + 1]
        ELSE [s EXCEPT !.idx = s.idx + 1]

\* Variant: line 38 left out, the seeded copy stays in pending.
SeedCopyKeepsPending(copies, s) ==
    LET copy == copies[s.idx] IN
    IF IsSeed(s.current_holder, copy)
    THEN [s EXCEPT !.available = Push(s.available, copy),
                   !.idx = s.idx + 1]
    ELSE [s EXCEPT !.idx = s.idx + 1]

\* Variant: the test of line 37 left out, every copy is seeded.
SeedCopyUnconditional(copies, s) ==
    LET copy == copies[s.idx] IN
    [s EXCEPT !.pending = MapRemove(s.pending, copy.destination),
              !.available = Push(s.available, copy),
              !.idx = s.idx + 1]

\* Body of the second `for` loop (lines 35-41).
SeedCopy(copies, s) ==
    LET copy == copies[s.idx] IN
    IF IsSeed(s.current_holder, copy)
    THEN [s EXCEPT !.pending = MapRemove(s.pending, copy.destination),
                   !.available = Push(s.available, copy),
                   !.idx = s.idx + 1]
    ELSE [s EXCEPT !.idx = s.idx + 1]

\* The second `for` loop is exhausted; the main loop starts.
SeedEnd(s) == [s EXCEPT !.pc = "loop"]

\* line 42: the condition of the outer `while`.
LoopTest(s) ==
    IF DOMAIN s.pending # {} \/ s.available # <<>>
    THEN [s EXCEPT !.pc = "drain"]
    ELSE [s EXCEPT !.pc = "done"]

\* Variant: the branch of lines 54-57 left out, a value read from the spare
\* is still recorded as held by the spare.
NewHolderSpareKept(pend, source, copy, sp) ==
    IF source \in DOMAIN pend THEN copy.destination ELSE source

\* Variant: the holder is not moved when a pending copy is released
\* (line 53 left out).
NewHolderNotMoved(pend, source, copy, sp) ==
    IF source = sp THEN copy.destination ELSE source

\* lines 50-57: the holder of copy.source after the copy was materialized
\* from register `source` (the holder before).
NewHolder(pend, source, copy, sp) ==
    IF source \in DOMAIN pend THEN copy.destination
    ELSE IF source = sp THEN copy.destination
    ELSE source

\* Variant: the copy is materialized from its original source register.
HolderIgnored(holder, copy) == copy.source

\* line 44: the register that holds the value of copy.source.
Holder(holder, copy) == holder[copy.source]

\* Variant: the released copy is looked up in pending (line 51) but not
\* removed from it.
MaterializeCopyKeepsPending(sp, s) ==
    LET copy == Top(s.available)
        rest == Pop(s.available)
    IN  IF copy.source \in DOMAIN s.current_holder
        THEN LET source == Holder(s.current_holder, copy) IN
             [s EXCEPT
                !.sequentialized =
                    Push(s.sequentialized,
                         [source |-> source, destination |-> copy.destination]),
                !.available =
                    IF source \in DOMAIN s.pending
                    THEN Push(rest, s.pending[source]) ELSE rest,
                !.current_holder =
                    [s.current_holder EXCEPT
                        ![copy.source] = NewHolder(s.pending, source, copy, sp)]]
        ELSE [s EXCEPT !.pc = "panic", !.panic = "no_holder",
                       !.available = rest]

\* Variant: lines 50-53 left out, the copy that was waiting for the register
\* just read stays pending.
MaterializeCopyNoRelease(sp, s) ==
    LET copy == Top(s.available)
        rest == Pop(s.available)
    IN  IF copy.source \in DOMAIN s.current_holder
        THEN LET source == Holder(s.current_holder, copy) IN
             [s EXCEPT
                !.sequentialized =
                    Push(s.sequentialized,
                         [source |-> source, destination |-> copy.destination]),
                !.available = rest]
        ELSE [s EXCEPT !.pc = "panic", !.panic = "no_holder",
                       !.available = rest]

\* Body of the inner `while let` (lines 43-61), one popped copy.
MaterializeCopy(sp, s) ==
    LET copy == Top(s.available)
        rest == Pop(s.available)
    IN  IF copy.source \in DOMAIN s.current_holder
        THEN LET source == Holder(s.current_holder, copy) IN
             [s EXCEPT
                !.sequentialized =
                    Push(s.sequentialized,
                         [source |-> source, destination |-> copy.destination]),
                !.available =
                    IF source \in DOMAIN s.pending
                    THEN Push(rest, s.pending[source]) ELSE rest,
                !.pending = MapRemove(s.pending, source),
                !.current_holder =
                    [s.current_holder EXCEPT
                        ![copy.source] = NewHolder(s.pending, source, copy, sp)]]
        ELSE [s EXCEPT !.pc = "panic", !.panic = "no_holder",
                       !.available = rest]

\* Variant: the block of lines 62-74 left out, the outer loop goes round.
DrainEndNoBreak(s) == [s EXCEPT !.pc = "loop"]

\* available.pop() returned None: the inner loop is left.
DrainEnd(s) == [s EXCEPT !.pc = "break"]

\* line 62: the pending copy whose value is evicted into the spare.
Evicted(pend) == pend[FirstKey(pend)]

\* Variant: line 70 left out, the evicted copy stays pending.
BreakCycleKeepsPending(sp, s) ==
    LET copy == Evicted(s.pending) IN
    [s EXCEPT
        !.sequentialized =
            Push(s.sequentialized,
                 [source |-> copy.destination, destination |-> sp]),
        !.current_holder = MapInsert(s.current_holder, copy.destination, sp),
        !.available = Push(s.available, copy),
        !.pc = "loop"]

\* Variant: line 68 left out, the evicted value is still looked up in the
\* register it was evicted from.
BreakCycleHolderKept(sp, s) ==
    LET copy == Evicted(s.pending) IN
    [s EXCEPT
        !.sequentialized =
            Push(s.sequentialized,
                 [source |-> copy.destination, destination |-> sp]),
        !.available = Push(s.available, copy),
        !.pending = MapRemove(s.pending, FirstKey(s.pending)),
        !.pc = "loop"]

\* lines 62-70: one cycle is broken.
BreakCycle(sp, s) ==
    LET copy == Evicted(s.pending) IN
    [s EXCEPT
        !.sequentialized =
            Push(s.sequentialized,
                 [source |-> copy.destination, destination |-> sp]),
        !.current_holder = MapInsert(s.current_holder, copy.destination, sp),
        !.available = Push(s.available, copy),
        !.pending = MapRemove(s.pending, FirstKey(s.pending)),
        !.pc = "loop"]

\* lines 71-74: nothing pending, `break`.
LoopBreak(s) == [s EXCEPT !.pc = "done"]

Terminal(s) == s.pc \in {"done", "panic"}

\* One step of sequentialize_register from the locals s.
Step(copies, sp, s) ==
    CASE s.pc = "check" /\ s.idx <= Len(copies) -> ValidateCopy(copies, sp, s)
      [] s.pc = "check" /\ s.idx > Len(copies)  -> ValidateEnd(s)
      [] s.pc = "seed" /\ s.idx <= Len(copies)  -> SeedCopy(copies, s)
      [] s.pc = "seed" /\ s.idx > Len(copies)   -> SeedEnd(s)
      [] s.pc = "loop"                          -> LoopTest(s)
      [] s.pc = "drain" /\ s.available # <<>>   -> MaterializeCopy(sp, s)
      [] s.pc = "drain" /\ s.available = <<>>   -> DrainEnd(s)
      [] s.pc = "break" /\ DOMAIN s.pending # {} -> BreakCycle(sp, s)
      [] s.pc = "break" /\ DOMAIN s.pending = {} -> LoopBreak(s)
      [] Terminal(s)                             -> s

\* A whole call: the locals when the function returns or panics.
RECURSIVE Run(_, _, _)
Run(copies, sp, s) ==
    IF Terminal(s) THEN s ELSE Run(copies, sp, Step(copies, sp, s))

\* sequentialize_register(parallel_copies, spare): the vector returned and
\* the panic that ended the call ("none" when it returned).
sequentialize_register(copies, sp) ==
    LET s == Run(copies, sp, InitLocals) IN
    [panic |-> s.panic,
     returned |-> IF s.pc = "done" THEN s.sequentialized ELSE <<>>]

----------------------------------------------------------------------------
\* The inputs.

Destinations(copies) == {copies[i].destination : i \in DOMAIN copies}

Sources(copies) == {copies[i].source : i \in DOMAIN copies}

DistinctDestinations(copies) ==
    \A i, j \in DOMAIN copies :
        copies[i].destination = copies[j].destination => i = j

SpareUnused(copies, sp) ==
    sp \notin Sources(copies) \cup Destinations(copies)

\* The two preconditions of sequentialize_register.
ValidBatch(copies, sp) == DistinctDestinations(copies) /\ SpareUnused(copies, sp)

\* The spare is the highest register, as in the tests of the repository.
Spares == {MaxReg}

\* The batches of n copies.
Batches(n) == [1..n -> RegisterCopy]

Locals ==
    [pc |-> pc, idx |-> idx, panic |-> panic,
     current_holder |-> current_holder, pending |-> pending,
     available |-> available, sequentialized |-> sequentialized]

Adopt(s) ==
    /\ pc' = s.pc
    /\ idx' = s.idx
    /\ panic' = s.panic
    /\ current_holder' = s.current_holder
    /\ pending' = s.pending
    /\ available' = s.available
    /\ sequentialized' = s.sequentialized
    /\ UNCHANGED <<parallel_copies, spare>>
    /\ UNCHANGED dfs_vars

\* No call of dfs_search is running.
DfsIdle ==
    /\ graph = [root |-> 0, edges |-> [n \in Node |-> <<>>]]
    /\ dfs_pc = "idle"
    /\ stack = <<>>
    /\ visited = {}
    /\ pre = EmptyMap
    /\ post = EmptyMap
    /\ spanning_tree = EmptyMap
    /\ pre_time = 0
    /\ post_time = 0

\* A call starts on a batch that satisfies the preconditions, or on a
\* (shorter) batch that need not.
Init ==
    /\ DfsIdle
    /\ spare \in Spares
    /\ \/ \E n \in 0..MaxCopies :
             /\ parallel_copies \in Batches(n)
             /\ ValidBatch(parallel_copies, spare)
       \/ \E n \in 0..MaxBadCopies : parallel_copies \in Batches(n)
    /\ pc = InitLocals.pc
    /\ idx = InitLocals.idx
    /\ panic = InitLocals.panic
    /\ current_holder = InitLocals.current_holder
    /\ pending = InitLocals.pending
    /\ available = InitLocals.available
    /\ sequentialized = InitLocals.sequentialized

StepValidate ==
    /\ pc = "check" /\ idx <= Len(parallel_copies)
    /\ Adopt(ValidateCopy(parallel_copies, spare, Locals))

StepValidateEnd ==
    /\ pc = "check" /\ idx > Len(parallel_copies)
    /\ Adopt(ValidateEnd(Locals))

StepSeed ==
    /\ pc = "seed" /\ idx <= Len(parallel_copies)
    /\ Adopt(SeedCopy(parallel_copies, Locals))

StepSeedEnd ==
    /\ pc = "seed" /\ idx > Len(parallel_copies)
    /\ Adopt(SeedEnd(Locals))

StepLoopTest ==
    /\ pc = "loop"
    /\ Adopt(LoopTest(Locals))

StepMaterialize ==
    /\ pc = "drain" /\ available # <<>>
    /\ Adopt(MaterializeCopy(spare, Locals))

StepDrainEnd ==
    /\ pc = "drain" /\ available = <<>>
    /\ Adopt(DrainEnd(Locals))

StepBreakCycle ==
    /\ pc = "break" /\ DOMAIN pending # {}
    /\ Adopt(BreakCycle(spare, Locals))

StepLoopBreak ==
    /\ pc = "break" /\ DOMAIN pending = {}
    /\ Adopt(LoopBreak(Locals))

Next ==
    \/ StepValidate
    \/ StepValidateEnd
    \/ StepSeed
    \/ StepSeedEnd
    \/ StepLoopTest
    \/ StepMaterialize
    \/ StepDrainEnd
    \/ StepBreakCycle
    \/ StepLoopBreak

Spec == Init /\ [][Next]_vars

----------------------------------------------------------------------------
\* dfs_search.  The recursion of the nested fn dfs is an explicit stack of
\* activations [node, at, i]: `at` is "entry" before the test of line 39 and
\* "loop" inside the `for` of line 46, whose next successor is the i-th.
\* A node without successors stands for both a node without an entry in
\* graph.edges and a node whose entry is the empty vector.

\* No call of sequentialize_register is running.
SeqIdle ==
    /\ parallel_copies = <<>>
    /\ spare = 0
    /\ pc = "idle"
    /\ idx = 1
    /\ panic = "none"
    /\ current_holder = EmptyMap
    /\ pending = EmptyMap
    /\ available = <<>>
    /\ sequentialized = <<>>

\* The adjacency map built from a list of edges <<from, to>>: the successors
\* of a node in the order of the list.
RECURSIVE Targets(_, _)
Targets(es, n) ==
    IF es = <<>> THEN <<>>
    ELSE IF es[1][1] = n THEN <<es[1][2]>> \o Targets(Tail(es), n)
    ELSE Targets(Tail(es), n)

EdgeMap(es) == [n \in Node |-> Targets(es, n)]

Activation(n) == [node |-> n, at |-> "entry", i |-> 1]

\* lines 22-27 and the call of lines 68-77.
InitDfs ==
    /\ SeqIdle
    /\ \E r \in Node : \E e \in 0..MaxEdges : \E es \in [1..e -> Node \X Node] :
          graph = [root |-> r, edges |-> EdgeMap(es)]
    /\ dfs_pc = "running"
    /\ stack = <<Activation(graph.root)>>
    /\ visited = {}
    /\ pre = EmptyMap
    /\ post = EmptyMap
    /\ spanning_tree = EmptyMap
    /\ pre_time = 0
    /\ post_time = 0

\* lines 39-43: entry of dfs.
DfsEnter ==
    /\ stack # <<>> /\ Top(stack).at = "entry"
    /\ LET node == Top(stack).node IN
       IF node \in visited
       THEN /\ stack' = Pop(stack)
            /\ UNCHANGED <<visited, pre, pre_time>>
       ELSE /\ visited' = visited \cup {node}
            /\ pre' = MapInsert(pre, node, pre_time)
            /\ pre_time' = pre_time + 1
            /\ stack' = [stack EXCEPT ![Len(stack)].at = "loop"]
    /\ UNCHANGED <<graph, dfs_pc, post, spanning_tree, post_time>>
    /\ UNCHANGED seq_vars

\* lines 46-61: one successor of the `for` loop.
DfsSuccessor ==
    /\ stack # <<>> /\ Top(stack).at = "loop"
    /\ Top(stack).i <= Len(graph.edges[Top(stack).node])
    /\ LET node == Top(stack).node
           successor == graph.edges[node][Top(stack).i]
           resumed == [stack EXCEPT ![Len(stack)].i = @ + 1]
       IN  IF successor \in visited
           THEN /\ stack' = resumed
                /\ UNCHANGED spanning_tree
           ELSE /\ spanning_tree' = MapInsert(spanning_tree, node, successor)
                /\ stack' = Push(resumed, Activation(successor))
    /\ UNCHANGED <<graph, dfs_pc, visited, pre, post, pre_time, post_time>>
    /\ UNCHANGED seq_vars

\* Variant: one clock for both numberings.
DfsExitOneClock ==
    /\ stack # <<>> /\ Top(stack).at = "loop"
    /\ Top(stack).i > Len(graph.edges[Top(stack).node])
    /\ post' = MapInsert(post, Top(stack).node, pre_time)
    /\ post_time' = post_time + 1
    /\ stack' = Pop(stack)
    /\ UNCHANGED <<graph, dfs_pc, visited, pre, spanning_tree, pre_time>>
    /\ UNCHANGED seq_vars

\* lines 64-66: the successors are exhausted, dfs returns.
DfsExit ==
    /\ stack # <<>> /\ Top(stack).at = "loop"
    /\ Top(stack).i > Len(graph.edges[Top(stack).node])
    /\ post' = MapInsert(post, Top(stack).node, post_time)
    /\ post_time' = post_time + 1
    /\ stack' = Pop(stack)
    /\ UNCHANGED <<graph, dfs_pc, visited, pre, spanning_tree, pre_time>>
    /\ UNCHANGED seq_vars

\* lines 79-83: dfs_search returns the VisitOrder.
DfsReturn ==
    /\ dfs_pc = "running" /\ stack = <<>>
    /\ dfs_pc' = "done"
    /\ UNCHANGED <<graph, stack, visited, pre, post, spanning_tree,
                   pre_time, post_time>>
    /\ UNCHANGED seq_vars

NextDfs ==
    \/ DfsEnter
    \/ DfsSuccessor
    \/ DfsExit
    \/ DfsReturn

SpecDfs == InitDfs /\ [][NextDfs]_vars


----------------------------------------------------------------------------
\* The reference semantics of a batch (the test helpers of algorithm13.rs).
\* Every register initially contains the value matching its id.

RECURSIVE execute_sequential_from(_, _, _)
execute_sequential_from(copies, i, register_values) ==
    IF i > Len(copies) THEN register_values
    ELSE LET copy == copies[i]
             source_value ==
                 IF copy.source \in DOMAIN register_values
                 THEN register_values[copy.source] ELSE copy.source
         IN  execute_sequential_from(copies, i + 1,
                 MapInsert(register_values, copy.destination, source_value))

execute_sequential(copies) == execute_sequential_from(copies, 1, EmptyMap)

RECURSIVE execute_parallel_from(_, _, _)
execute_parallel_from(copies, i, register_values) ==
    IF i > Len(copies) THEN register_values
    ELSE execute_parallel_from(copies, i + 1,
             MapInsert(register_values, copies[i].destination, copies[i].source))

execute_parallel(copies) == execute_parallel_from(copies, 1, EmptyMap)

----------------------------------------------------------------------------
\* The dependency graph of a batch with distinct destinations: an edge from
\* the source to the destination of every copy.

SourceOf(copies, d) ==
    copies[CHOOSE i \in DOMAIN copies : copies[i].destination = d].source

\* The register whose value reaches d through k copies of the batch, -1
\* when there is none.
RECURSIVE Origin(_, _, _)
Origin(copies, d, k) ==
    IF k = 0 THEN d
    ELSE IF d \notin Destinations(copies) THEN -1
    ELSE Origin(copies, SourceOf(copies, d), k - 1)

OnCycle(copies, d) == \E k \in 1..Len(copies) : Origin(copies, d, k) = d

CycleOf(copies, d) == {Origin(copies, d, k) : k \in 1..Len(copies)}

\* The cycles of the batch, each as its set of registers (a self-copy is a
\* cycle of one register).
Cycles(copies) ==
    {CycleOf(copies, d) : d \in {e \in Destinations(copies) : OnCycle(copies, e)}}

\* The cycles none of whose registers is copied to a register outside.
ClosedCycles(copies) ==
    {c \in Cycles(copies) :
        \A i \in DOMAIN copies :
            copies[i].source \in c => copies[i].destination \in c}

\* The copies of the batch that are seeded: the destination is no source.
SeedCount(copies) ==
    Cardinality({i \in DOMAIN copies :
                    copies[i].destination \notin Sources(copies)})

Evictions(seq, sp) == {i \in DOMAIN seq : seq[i].destination = sp}

Reorderings(seq) ==
    {[i \in DOMAIN seq |-> seq[p[i]]] :
        p \in {q \in [DOMAIN seq -> DOMAIN seq] :
                  \A i, j \in DOMAIN seq : q[i] = q[j] => i = j}}

\* The batch (of distinct destinations) in the order of its destinations.
ByDestination(copies) ==
    CHOOSE q \in Reorderings(copies) :
        \A i, j \in DOMAIN q : i < j => q[i].destination < q[j].destination

\* A measure of the work a call has left: a natural number that bounds the
\* number of steps to come.
Rank ==
    LET n == Len(parallel_copies)
        work == 3 * (2 * Cardinality(DOMAIN pending) + Len(available))
    IN  CASE pc = "check" -> 7 * n + 5 + (n + 1 - idx)
          [] pc = "seed"  -> work + 4 + (n + 1 - idx)
          [] pc = "loop"  -> work + 3
          [] pc = "drain" -> work + 2
          [] pc = "break" -> work + 1
          [] OTHER        -> 0

Returned == pc = "done"

Valid == ValidBatch(parallel_copies, spare)

----------------------------------------------------------------------------
\* C1 (equivalence): when the call on a valid batch has returned, executing
\* the returned sequence one copy at a time leaves every destination of the
\* batch holding the pre-batch value of its source, as the parallel copy does.
C1_Equivalence ==
    (Returned /\ Valid) =>
        LET Q == execute_sequential(sequentialized)
            P == execute_parallel(parallel_copies)
        IN  \A r \in Destinations(parallel_copies) :
                r \in DOMAIN Q /\ Q[r] = P[r]

\* A returned call on a full batch in which a cycle was broken through the
\* spare.
C1_Witness ==
    /\ Returned /\ Valid
    /\ Len(parallel_copies) >= 3
    /\ Evictions(sequentialized, spare) # {}

\* C2 as stated (determinism across input orderings): a call that returned
\* has returned the sequence that the call on the same copies in the order of
\* their destinations returns.  Every order of every batch starts a call, so
\* this makes any two orders of a batch return the same sequence.
C2_AnyOrder ==
    Returned =>
        sequentialize_register(ByDestination(parallel_copies), spare) =
            [panic |-> "none", returned |-> sequentialized]

\* C2 as amended: the same, for the batches in which at most one copy has a
\* destination that is not a source of the batch (at most one copy is
\* seeded).
C2_AtMostOneSeed ==
    (Returned /\ SeedCount(parallel_copies) <= 1) =>
        sequentialize_register(ByDestination(parallel_copies), spare) =
            [panic |-> "none", returned |-> sequentialized]

\* A returned call on three copies, one of them seeded, with a cycle broken.
C2_Witness ==
    /\ Returned
    /\ SeedCount(parallel_copies) = 1
    /\ Len(parallel_copies) >= 3
    /\ Evictions(sequentialized, spare) # {}

\* C3 (duplicate destination): a call on a batch with two copies of the same
\* destination emits nothing and never leaves the first loop but by a panic:
\* it is in that loop with a copy still to validate, or it has panicked.
C3_DuplicateAborts ==
    ~DistinctDestinations(parallel_copies) =>
        /\ sequentialized = <<>>
        /\ \/ pc = "panic"
           \/ pc = "check" /\ idx <= Len(parallel_copies)

\* The second copy repeats the destination of the first.
C3_Witness ==
    /\ pc = "panic" /\ panic = "duplicate"
    /\ idx = 2
    /\ ~DistinctDestinations(parallel_copies)

\* C4 (invalid spare): a call on a batch that names the spare as a source or
\* as a destination emits nothing and never leaves the first loop but by a
\* panic.
C4_InvalidSpareAborts ==
    ~SpareUnused(parallel_copies, spare) =>
        /\ sequentialized = <<>>
        /\ \/ pc = "panic"
           \/ pc = "check" /\ idx <= Len(parallel_copies)

\* The second copy reads the spare.
C4_Witness ==
    /\ pc = "panic" /\ panic = "spare"
    /\ idx = 2
    /\ parallel_copies[2].source = spare
    /\ parallel_copies[2].destination # spare

\* C5 (bound): the sequence returned for a valid batch has at most as many
\* copies as the batch plus one per cycle of the batch.
C5_Bound ==
    (Returned /\ Valid) =>
        Len(sequentialized) <=
            Len(parallel_copies) + Cardinality(Cycles(parallel_copies))

\* A returned call on a batch with two cycles that meets the bound.
C5_Witness ==
    /\ Returned /\ Valid
    /\ Cardinality(Cycles(parallel_copies)) = 2
    /\ Len(sequentialized) = Len(parallel_copies) + 2

\* C6 (acyclic batches): the sequence returned for a valid batch without a
\* cycle has as many copies as the batch and does not name the spare.
C6_AcyclicNoSpare ==
    (Returned /\ Valid /\ Cycles(parallel_copies) = {}) =>
        /\ Len(sequentialized) = Len(parallel_copies)
        /\ spare \notin Sources(sequentialized) \cup Destinations(sequentialized)

\* A returned call on a chain of three copies.
C6_Witness ==
    /\ Returned /\ Valid
    /\ Cycles(parallel_copies) = {}
    /\ Len(parallel_copies) = 3
    /\ SeedCount(parallel_copies) = 1

\* C7 (evictions): the number of copies into the spare in the sequence
\* returned for a valid batch is the number of cycles of the batch none of
\* whose registers is copied to a register outside the cycle.
C7_Evictions ==
    (Returned /\ Valid) =>
        Cardinality(Evictions(sequentialized, spare)) =
            Cardinality(ClosedCycles(parallel_copies))

\* A returned call on a batch with a closed cycle and a cycle that fans out.
C7_Witness ==
    /\ Returned /\ Valid
    /\ ClosedCycles(parallel_copies) # {}
    /\ ClosedCycles(parallel_copies) # Cycles(parallel_copies)

\* C8 (termination): a call on a valid batch does not panic and every step
\* of it lowers Rank, a natural number that is 0 only when the call has
\* returned; so the main loop cannot go round forever and the call returns,
\* after at most 8 * |B| + 6 steps.
C8_Terminates ==
    /\ [](Valid => (pc # "panic" /\ Rank >= 0 /\ (Rank = 0 => Returned)))
    /\ [][Valid => Rank' < Rank]_vars

\* A call that went round the main loop three times has returned.
C8_Witness ==
    /\ Returned /\ Valid
    /\ Cardinality(Evictions(sequentialized, spare)) >= 2

\* C9 (no internal invariant violation): in a call on a valid batch the
\* source of every available copy has an entry in current_holder, and the
\* call does not end in the panic of line 59.
C9_HolderPresent ==
    Valid =>
        /\ panic # "no_holder"
        /\ \A i \in DOMAIN available :
               available[i].source \in DOMAIN current_holder

\* A copy is about to be popped after a cycle was broken.
C9_Witness ==
    /\ Valid
    /\ pc = "drain" /\ available # <<>>
    /\ Evictions(sequentialized, spare) # {}
    /\ Len(sequentialized) >= 2

----------------------------------------------------------------------------
\* The nodes reachable from a set of nodes along the edges of the graph.

RECURSIVE ReachableFrom(_, _)
ReachableFrom(edges, S) ==
    LET T == S \cup {edges[n][i] : <<n, i>> \in
                        {p \in S \X (1..MaxEdges) : p[2] <= Len(edges[p[1]])}}
    IN  IF T = S THEN S ELSE ReachableFrom(edges, T)

Reachable == ReachableFrom(graph.edges, {graph.root})

Numbers(m) == {m[n] : n \in DOMAIN m}

\* C10 (DFS numbering): when dfs_search has returned, pre and post are
\* defined on exactly the nodes reachable from the root, each takes exactly
\* the values 0..k-1 for the k reachable nodes (so no number is used twice),
\* and the root has pre number 0 and post number k-1.
C10_Numbering ==
    dfs_pc = "done" =>
        LET k == Cardinality(Reachable) IN
        /\ DOMAIN pre = Reachable
        /\ DOMAIN post = Reachable
        /\ Numbers(pre) = 0..(k - 1)
        /\ Numbers(post) = 0..(k - 1)
        /\ pre[graph.root] = 0
        /\ post[graph.root] = k - 1

\* A returned search of a graph with a back edge, whose root reaches three
\* nodes but not all of them.
C10_Witness ==
    /\ dfs_pc = "done"
    /\ Cardinality(Reachable) = 3
    /\ \E n \in Reachable \ {graph.root} :
          \E i \in DOMAIN graph.edges[n] : graph.edges[n][i] = graph.root

\* The node from whose activation dfs first visited n: the nearest proper
\* ancestor of n in the traversal, read off the two numberings.
TreeParent(n) ==
    CHOOSE p \in DOMAIN pre :
        /\ pre[p] < pre[n] /\ post[p] > post[n]
        /\ \A q \in DOMAIN pre :
               (pre[q] < pre[n] /\ post[q] > post[n]) => pre[q] <= pre[p]

\* C11 (DFS spanning tree): when dfs_search has returned, every node
\* reachable from the root other than the root is recorded in spanning_tree
\* as the child of the node from which it was first visited.
C11_SpanningTree ==
    dfs_pc = "done" =>
        \A n \in Reachable \ {graph.root} :
            /\ TreeParent(n) \in DOMAIN spanning_tree
            /\ spanning_tree[TreeParent(n)] = n

----------------------------------------------------------------------------
\* The register file after the copies emitted so far: the value in register
\* r, every register initially containing the value matching its id.
ValueIn(r) ==
    LET register_values == execute_sequential(sequentialized) IN
    IF r \in DOMAIN register_values THEN register_values[r] ELSE r

InMainLoop == pc \in {"loop", "drain", "break", "done"}

\* C12 (current-holder invariant): at every step of the main loop of a call
\* on a valid batch, for every source s of the batch the register
\* current_holder[s] holds the pre-batch value of s in the register file
\* obtained by executing the copies emitted so far.
C12_HolderHoldsValue ==
    (InMainLoop /\ Valid) =>
        \A s \in Sources(parallel_copies) :
            /\ s \in DOMAIN current_holder
            /\ ValueIn(current_holder[s]) = s

\* A second cycle has been broken: the spare holds the value of the second
\* evicted register, after it held the value of the first.
C12_Witness ==
    /\ InMainLoop /\ Valid
    /\ Cardinality(Evictions(sequentialized, spare)) = 2
    /\ \E s \in Sources(parallel_copies) : current_holder[s] = spare

----------------------------------------------------------------------------
\* The pending copies and the available copies, as sets.
PendingCopies == {pending[d] : d \in DOMAIN pending}

AvailableCopies == {available[i] : i \in DOMAIN available}

\* The point where a cycle is broken: the inner loop has drained available
\* and copies are still pending (line 62).
AtBreak == pc = "break" /\ DOMAIN pending # {}

\* C13 as stated: at the point where a cycle is broken, the destination of
\* every pending copy is the source of some other pending copy.
C13_OtherPendingReads ==
    (AtBreak /\ Valid) =>
        \A c \in PendingCopies :
            \E o \in PendingCopies \ {c} : o.source = c.destination

\* C13 (remaining copies are cycles): at the point where a cycle is broken,
\* the destination of every pending copy is the source of some pending copy,
\* which is the copy itself for a copy of a register to itself.
C13_PendingRead ==
    (AtBreak /\ Valid) =>
        \A c \in PendingCopies :
            \E o \in PendingCopies : o.source = c.destination

\* A cycle of two registers is about to be broken after a chain was emitted.
C13_Witness ==
    /\ AtBreak /\ Valid
    /\ sequentialized # <<>>
    /\ \E c \in PendingCopies : c.source # c.destination

\* The second `for` loop is exhausted, the main loop has not started.
Seeded == pc = "seed" /\ idx > Len(parallel_copies)

BatchCopies == {parallel_copies[i] : i \in DOMAIN parallel_copies}

\* C14 as stated: after seeding, available holds exactly the copies whose
\* destination is not the source of some other copy of the batch, and
\* pending the remaining copies.
C14_NoOtherReader ==
    (Seeded /\ Valid) =>
        LET free == {c \in BatchCopies :
                        \A o \in BatchCopies \ {c} : o.source # c.destination}
        IN  /\ AvailableCopies = free
            /\ PendingCopies = BatchCopies \ free

\* C14 (seeding): after seeding, available holds exactly the copies whose
\* destination is the source of no copy of the batch, the copy itself
\* included, each once, and pending holds exactly the remaining copies.
C14_NoReader ==
    (Seeded /\ Valid) =>
        LET free == {c \in BatchCopies :
                        \A o \in BatchCopies : o.source # c.destination}
        IN  /\ AvailableCopies = free
            /\ Len(available) = Cardinality(free)
            /\ PendingCopies = BatchCopies \ free
            /\ \A d \in DOMAIN pending : pending[d].destination = d

\* Seeding has split a batch that holds a copy of a register to itself.
C14_Witness ==
    /\ Seeded /\ Valid
    /\ available # <<>>
    /\ \E c \in PendingCopies : c.source = c.destination

----------------------------------------------------------------------------
\* C15 (cycle-break step): the step taken where a cycle is broken, with d
\* the smallest destination of a pending copy, emits the one copy
\* (d -> spare), sets current_holder[d] to the spare and no other holder,
\* moves the pending copy of destination d onto available and leaves every
\* other pending entry as it was.
C15_BreakStep ==
    [][(AtBreak /\ Valid) =>
        \E d \in DOMAIN pending :
            /\ \A e \in DOMAIN pending : d <= e
            /\ sequentialized' =
                   Append(sequentialized, [source |-> d, destination |-> spare])
            /\ DOMAIN current_holder' = DOMAIN current_holder \cup {d}
            /\ current_holder'[d] = spare
            /\ \A r \in DOMAIN current_holder \ {d} :
                   current_holder'[r] = current_holder[r]
            /\ available' = Append(available, pending[d])
            /\ DOMAIN pending' = DOMAIN pending \ {d}
            /\ \A e \in DOMAIN pending' : pending'[e] = pending[e]]_vars

\* A cycle has just been broken while another cycle, of greater registers,
\* is left pending.
C15_Witness ==
    /\ pc = "loop" /\ Valid
    /\ Len(available) = 1
    /\ DOMAIN pending # {}
    /\ sequentialized # <<>>
    /\ sequentialized[Len(sequentialized)] =
           [source |-> available[1].destination, destination |-> spare]
    /\ \A e \in DOMAIN pending : available[1].destination < e

----------------------------------------------------------------------------
\* The copies of seq that write or read the register sp, in order.
SpareUses(seq, sp) ==
    LET Touches(c) == c.source = sp \/ c.destination = sp
    IN  SelectSeq(seq, Touches)

\* C16 (spare reuse ordering): in the sequence returned for a valid batch,
\* the copies that touch the spare are alternately a write of the spare and
\* a read of it, the first a write and the last a read.
C16_SpareAlternates ==
    (Returned /\ Valid) =>
        LET uses == SpareUses(sequentialized, spare) IN
        /\ Len(uses) % 2 = 0
        /\ \A i \in DOMAIN uses :
               IF i % 2 = 1
               THEN uses[i].destination = spare /\ uses[i].source # spare
               ELSE uses[i].source = spare /\ uses[i].destination # spare

\* Two cycles were broken: the spare was written, read, written again and
\* read again.
C16_Witness ==
    /\ Returned /\ Valid
    /\ Len(SpareUses(sequentialized, spare)) = 4

----------------------------------------------------------------------------
\* One iteration of the outer `while` (lines 42-75) from its head: the
\* locals when control is back at the head, or has left the loop.
RECURSIVE Iteration(_, _, _)
Iteration(copies, sp, s) ==
    LET n == Step(copies, sp, s) IN
    IF n.pc \in {"loop", "done", "panic"} THEN n ELSE Iteration(copies, sp, n)

PendingCount(s) == Cardinality(DOMAIN s.pending)

\* The head of the main loop, its condition true.
AtLoopHead == pc = "loop" /\ (DOMAIN pending # {} \/ available # <<>>)

\* C17 as stated: every iteration of the main loop ends with fewer pending
\* copies than it started with.
C17_EveryIterationReduces ==
    (AtLoopHead /\ Valid) =>
        PendingCount(Iteration(parallel_copies, spare, Locals))
            < PendingCount(Locals)

\* C17 (progress measure): an iteration of the main loop that starts with
\* copies pending ends with fewer pending copies; an iteration that starts
\* with none pending ends with none pending and leaves the loop.
C17_IterationReduces ==
    (AtLoopHead /\ Valid) =>
        LET end == Iteration(parallel_copies, spare, Locals) IN
        IF DOMAIN pending # {}
        THEN PendingCount(end) < PendingCount(Locals)
        ELSE PendingCount(end) = 0 /\ end.pc = "done"

\* An iteration starts with copies to drain and a cycle to break, and
\* leaves another cycle pending for the next iteration.
C17_Witness ==
    /\ AtLoopHead /\ Valid
    /\ available # <<>>
    /\ PendingCount(Iteration(parallel_copies, spare, Locals)) > 0

----------------------------------------------------------------------------
\* The copies of the batch not yet emitted.
Unemitted == PendingCopies \cup AvailableCopies

\* C18 (no clobbering): whenever a step of a call on a valid batch emits a
\* copy, the register that copy writes is, at that moment, the current
\* holder of the source of no copy still unemitted (pending or available,
\* the copy being emitted included).
C18_NoClobber ==
    [][(Valid /\ Len(sequentialized') = Len(sequentialized) + 1) =>
        LET d == sequentialized'[Len(sequentialized')].destination IN
        \A c \in Unemitted :
            /\ c.source \in DOMAIN current_holder
            /\ current_holder[c.source] # d]_vars

\* A copy was emitted into a register that the batch reads, while another
\* copy is still to be emitted.
C18_Witness ==
    /\ Valid /\ pc = "drain"
    /\ sequentialized # <<>>
    /\ sequentialized[Len(sequentialized)].destination
           \in Sources(parallel_copies)
    /\ available # <<>>

----------------------------------------------------------------------------
\* The positions of seq that write register d.
WritesOf(seq, d) == {i \in DOMAIN seq : seq[i].destination = d}

\* C19 (write set): the sequence returned for a valid batch holds exactly
\* one copy into each destination of the batch, and every other copy of it
\* writes the spare.
C19_WriteSet ==
    (Returned /\ Valid) =>
        /\ \A d \in Destinations(parallel_copies) :
               Cardinality(WritesOf(sequentialized, d)) = 1
        /\ \A i \in DOMAIN sequentialized :
               sequentialized[i].destination
                   \in Destinations(parallel_copies) \cup {spare}

\* The call returned for a batch of a chain and a cycle: a copy was released
\* by another and the spare was written.
C19_Witness ==
    /\ Returned /\ Valid
    /\ Len(parallel_copies) = MaxCopies
    /\ SeedCount(parallel_copies) > 0
    /\ WritesOf(sequentialized, spare) # {}

\* C20 (no self-copy in the output): no copy of the sequence returned for a
\* valid batch has its source equal to its destination, also when the batch
\* holds copies of a register to itself.
C20_NoSelfCopy ==
    (Returned /\ Valid) =>
        \A i \in DOMAIN sequentialized :
            sequentialized[i].source # sequentialized[i].destination

\* The call returned for a batch that holds a copy of a register to itself
\* next to other copies.
C20_Witness ==
    /\ Returned /\ Valid
    /\ Len(parallel_copies) > 1
    /\ \E i \in DOMAIN parallel_copies :
           parallel_copies[i].source = parallel_copies[i].destination

====
